---- MODULE Spec2Model ----
(***************************************************************************)
(* Weekly price tracker: the price-table pipeline of data_loader.py        *)
(* (build_price_tables and its helpers), the batched fetch of app.py, the   *)
(* table helpers of visualization.py and the session of analysis1.py.       *)
(*                                                                         *)
(* Symbols are sequences of characters, so that str.strip() is computed.   *)
(* Week-ending dates are week ordinals 1..MaxDate.  A cell of a table is   *)
(* a float: a rational number, NaN or +/-inf (IEEE division by zero).      *)
(* Floating-point rounding is abstracted: arithmetic is exact.             *)
(***************************************************************************)
EXTENDS Integers, Sequences, FiniteSets, TLC

\* ------------------------------------------------------------- bounds ----
MaxSyms  == 3      \* longest input symbol list
MaxDate  == 3      \* week-ending dates are 1..MaxDate
MaxPrice == 2      \* closes are 0..MaxPrice
MaxWeeks == 3      \* lookbacks are 1..MaxWeeks
MaxBatch == 3      \* batch sizes are 1..MaxBatch
MaxCols  == 3      \* rendered tables have up to MaxCols week columns
MaxBelow == 1      \* lookbacks that are not positive are -MaxBelow..0
MaxDays  == 3      \* a quote history has up to MaxDays rows

Dates  == 1..MaxDate
Prices == 0..MaxPrice

\* ------------------------------------------------------------- floats ----
NaN    == [k |-> "nan", n |-> 0, d |-> 1]
PosInf == [k |-> "inf", n |-> 1, d |-> 1]
NegInf == [k |-> "inf", n |-> -1, d |-> 1]

Abs(x) == IF x < 0 THEN -x ELSE x

RECURSIVE GCD(_, _)
GCD(a, b) == IF b = 0 THEN a ELSE GCD(b, a % b)

\* the rational n/d (d # 0) in lowest terms with a positive denominator
Frac(n, d) ==
    LET g == GCD(Abs(n), Abs(d))
        s == IF d < 0 THEN -1 ELSE 1
    IN  [k |-> "num", n |-> (s * n) \div g, d |-> (s * d) \div g]

Num(p) == [k |-> "num", n |-> p, d |-> 1]

IsNum(x) == x.k = "num"
IsNaN(x) == x.k = "nan"
IsInf(x) == x.k = "inf"

Sign(x) == IF x.n > 0 THEN 1 ELSE IF x.n < 0 THEN -1 ELSE 0

\* IEEE-754 division as numpy performs it element-wise
FDiv(a, b) ==
    IF IsNaN(a) \/ IsNaN(b) THEN NaN
    ELSE IF IsInf(a) /\ IsInf(b) THEN NaN
    ELSE IF IsInf(b) THEN Num(0)
    ELSE IF IsInf(a) THEN (IF Sign(a) * Sign(b) >= 0 THEN PosInf ELSE NegInf)
    ELSE IF b.n = 0 THEN
        (IF a.n = 0 THEN NaN ELSE IF a.n > 0 THEN PosInf ELSE NegInf)
    ELSE Frac(a.n * b.d, a.d * b.n)

\* a - b
FSub(a, b) ==
    IF IsNaN(a) \/ IsNaN(b) THEN NaN
    ELSE IF IsInf(a) THEN (IF IsInf(b) /\ Sign(a) = Sign(b) THEN NaN ELSE a)
    ELSE IF IsInf(b) THEN (IF Sign(b) > 0 THEN NegInf ELSE PosInf)
    ELSE Frac(a.n * b.d - b.n * a.d, a.d * b.d)

\* a - c for an integer c
FSubInt(a, c) == IF IsNum(a) THEN Frac(a.n - c * a.d, a.d) ELSE a

\* a * c for a positive integer c
FMulInt(a, c) == IF IsNum(a) THEN Frac(a.n * c, a.d) ELSE a

\* ------------------------------------------------------------ symbols ----
IsSpace(c) == c = " "

RECURSIVE LStrip(_)
LStrip(s) == IF s # <<>> /\ IsSpace(Head(s)) THEN LStrip(Tail(s)) ELSE s

RECURSIVE RStrip(_)
RStrip(s) ==
    IF s # <<>> /\ IsSpace(s[Len(s)]) THEN RStrip(SubSeq(s, 1, Len(s) - 1)) ELSE s

\* str.strip()
Strip(s) == RStrip(LStrip(s))

SymA == <<"A">>
SymB == <<"B">>
Syms == {SymA, SymB}

\* what a sheet or a pasted text can hold: a clean symbol, a padded one, a blank
RawSymbols == {<<"A">>, <<"B", " ">>, <<" ">>}

RECURSIVE SeqsUpTo(_, _)
SeqsUpTo(S, n) ==
    IF n = 0 THEN {<<>>}
    ELSE LET shorter == SeqsUpTo(S, n - 1)
         IN  shorter \cup {Append(q, x) : q \in {r \in shorter : Len(r) = n - 1}, x \in S}

Range(s) == {s[j] : j \in 1..Len(s)}

\* ---------------------------------------------------- ordered mappings ----
\* A Python dict: a sequence of [key, val] in insertion order, keys distinct.
Keys(dct) == [j \in 1..Len(dct) |-> dct[j].key]

HasKey(dct, key) == \E j \in 1..Len(dct) : dct[j].key = key

Lookup(dct, key) == dct[CHOOSE j \in 1..Len(dct) : dct[j].key = key].val

\* dct[key] = val: an existing key keeps its position
SetItem(dct, key, val) ==
    IF HasKey(dct, key)
    THEN [j \in 1..Len(dct) |->
            IF dct[j].key = key THEN [key |-> key, val |-> val] ELSE dct[j]]
    ELSE Append(dct, [key |-> key, val |-> val])

\* ------------------------------------------------------------- series ----
\* A pandas Series of closes: a sequence of [date, close], dates ascending.
SeriesDates(s) == [j \in 1..Len(s) |-> s[j].date]

SeriesAt(s, date) ==
    IF \E j \in 1..Len(s) : s[j].date = date
    THEN s[CHOOSE j \in 1..Len(s) : s[j].date = date].close
    ELSE NaN

RECURSIVE DropNa(_)
DropNa(s) ==
    IF s = <<>> THEN <<>>
    ELSE IF IsNaN(Head(s).close) THEN DropNa(Tail(s))
    ELSE <<Head(s)>> \o DropNa(Tail(s))

\* Series.tail(n), also for n <= 0 (tail(0) is empty, tail(-k) drops the first k)
TailN(s, n) ==
    IF n = 0 THEN <<>>
    ELSE IF n > 0 THEN (IF Len(s) <= n THEN s ELSE SubSeq(s, Len(s) - n + 1, Len(s)))
    ELSE (IF Len(s) <= -n THEN <<>> ELSE SubSeq(s, 1 - n, Len(s)))

\* ----------------------------------------------------- upstream source ----
\* A daily frame: the rows [wk, close] the source returned, in time order; wk
\* is the W-FRI bucket the row's day falls into.  An upstream answer is a
\* frame or an exception.
EmptyFrame == <<>>

Answer(exc, frame) == [exc |-> exc, frame |-> frame]

\* The frame with one row per bucket wk..MaxDate, its closes given by f:
\* f[wk] >= 0 is a close, -1 a row whose close is NaN, -2 no row that week.
RECURSIVE FrameOf(_, _)
FrameOf(f, wk) ==
    IF wk > MaxDate THEN <<>>
    ELSE (IF f[wk] = -2 THEN <<>>
          ELSE <<[wk |-> wk, close |-> (IF f[wk] = -1 THEN NaN ELSE Num(f[wk]))]>>)
         \o FrameOf(f, wk + 1)

\* every frame with at most one row per week
RichFrames == {FrameOf(f, 1) : f \in [Dates -> (-2)..MaxPrice]}

\* a symbol listed k weeks ago: two rows in each of the last k weeks, the
\* earlier close MaxPrice and the week's last close 1
RECURSIVE ListedSince(_)
ListedSince(wk) ==
    IF wk > MaxDate THEN <<>>
    ELSE <<[wk |-> wk, close |-> Num(MaxPrice)], [wk |-> wk, close |-> Num(1)]>>
         \o ListedSince(wk + 1)

PlainFrames == {ListedSince(wk) : wk \in 1..(MaxDate + 1)}

\* every frame with at most one row per week, all closes 1
GapFrames == {FrameOf(f, 1) : f \in [Dates -> {-2, 1}]}

\* faulty variant: _safe_download without its try/except
SafeDownloadRaises(answer) ==
    IF answer.exc THEN [raised |-> TRUE, frame |-> EmptyFrame]
    ELSE [raised |-> FALSE, frame |-> answer.frame]

\* _safe_download: the frame, or an empty frame when the source raised or
\* returned nothing.  "raised" stands for an exception leaving the function.
SafeDownload(answer) ==
    IF answer.exc THEN [raised |-> FALSE, frame |-> EmptyFrame]
    ELSE [raised |-> FALSE, frame |-> answer.frame]

FrameWeeks(daily) == {daily[j].wk : j \in 1..Len(daily)}

MinWk(daily) == CHOOSE w \in FrameWeeks(daily) : \A v \in FrameWeeks(daily) : w <= v
MaxWk(daily) == CHOOSE w \in FrameWeeks(daily) : \A v \in FrameWeeks(daily) : w >= v

\* the last non-NaN close among the rows of bucket wk, NaN if there is none
LastInBucket(daily, wk) ==
    LET rows == {j \in 1..Len(daily) : daily[j].wk = wk /\ ~IsNaN(daily[j].close)}
    IN  IF rows = {} THEN NaN
        ELSE daily[CHOOSE j \in rows : \A h \in rows : h <= j].close

\* daily["Close"].resample("W-FRI").last(): one entry per bucket from the
\* first to the last row's bucket
RECURSIVE ResampleFrom(_, _, _)
ResampleFrom(daily, wk, last) ==
    IF wk > last THEN <<>>
    ELSE <<[date |-> wk, close |-> LastInBucket(daily, wk)]>>
         \o ResampleFrom(daily, wk + 1, last)

ResampleLast(daily) ==
    IF daily = <<>> THEN <<>> ELSE ResampleFrom(daily, MinWk(daily), MaxWk(daily))

\* the close of the last row at or before the end of bucket wk (reindex pad)
PadAt(daily, wk) ==
    LET rows == {j \in 1..Len(daily) : daily[j].wk <= wk}
    IN  IF rows = {} THEN NaN
        ELSE daily[CHOOSE j \in rows : \A h \in rows : h <= j].close

RECURSIVE PadFrom(_, _, _)
PadFrom(daily, wk, last) ==
    IF wk > last THEN <<>>
    ELSE <<[date |-> wk, close |-> PadAt(daily, wk)]>> \o PadFrom(daily, wk + 1, last)

\* the backstop of fetch_friday_closes: reindex on the W-FRI range with pad
Backstop(daily) == DropNa(PadFrom(daily, MinWk(daily), MaxWk(daily)))

NoSeries == <<>>

\* fetch_friday_closes after the download: the weekly series, or NoSeries
\* (None) when fewer than 2 observations remain
FridayCloses(daily, weeks) ==
    IF daily = EmptyFrame THEN NoSeries
    ELSE LET resampled == DropNa(ResampleLast(daily))
             weekly    == IF resampled = <<>> THEN Backstop(daily) ELSE resampled
             kept      == TailN(weekly, weeks)
         IN  IF weekly = <<>> THEN NoSeries
             ELSE IF Len(kept) < 2 THEN NoSeries
             ELSE kept

\* --------------------------------------------------------- data frames ----
\* A DataFrame: index (row labels), columns (dates) and data, one sequence of
\* cells per row.
EmptyDF == [index |-> <<>>, columns |-> <<>>, data |-> <<>>]

IndexOf(s, x) == CHOOSE j \in 1..Len(s) : s[j] = x

RECURSIVE Dedup(_)
Dedup(s) ==
    IF s = <<>> THEN <<>>
    ELSE LET front == Dedup(SubSeq(s, 1, Len(s) - 1))
             x     == s[Len(s)]
         IN  IF x \in Range(front) THEN front ELSE Append(front, x)

RECURSIVE Flatten(_)
Flatten(ss) == IF ss = <<>> THEN <<>> ELSE Head(ss) \o Flatten(Tail(ss))

\* pd.concat(series_map.values(), axis=1).T: a row per series, a column per
\* date of the union of the series' dates
ConcatT(series_map) ==
    LET cols == Dedup(Flatten([j \in 1..Len(series_map) |-> SeriesDates(series_map[j].val)]))
    IN  [index   |-> Keys(series_map),
         columns |-> cols,
         data    |-> [r \in 1..Len(series_map) |->
                        [c \in 1..Len(cols) |-> SeriesAt(series_map[r].val, cols[c])]]]

RECURSIVE Insert(_, _)
Insert(sorted, x) ==
    IF sorted = <<>> THEN <<x>>
    ELSE IF x < Head(sorted) THEN <<x>> \o sorted
    ELSE <<Head(sorted)>> \o Insert(Tail(sorted), x)

\* sorted(...)
RECURSIVE Sorted(_)
Sorted(s) == IF s = <<>> THEN <<>> ELSE Insert(Sorted(Tail(s)), Head(s))

\* df.reindex(cols, axis=1): a column that df lacks is NaN
ReindexColumns(df, cols) ==
    [index   |-> df.index,
     columns |-> cols,
     data    |-> [r \in 1..Len(df.index) |->
                    [c \in 1..Len(cols) |->
                        IF cols[c] \in Range(df.columns)
                        THEN df.data[r][IndexOf(df.columns, cols[c])]
                        ELSE NaN]]]

\* the positions a Python slice [-n:] keeps of a sequence of length len
SliceFrom(len, n) ==
    IF n > 0 THEN (IF n >= len THEN 1 ELSE len - n + 1)
    ELSE (IF -n >= len THEN len + 1 ELSE 1 - n)

\* faulty variant: df.iloc[:, :weeks]: the first weeks columns
ILocFirst(df, weeks) ==
    LET keep == IF weeks >= Len(df.columns) THEN Len(df.columns) ELSE weeks
    IN  [index   |-> df.index,
         columns |-> [c \in 1..keep |-> df.columns[c]],
         data    |-> [r \in 1..Len(df.index) |-> [c \in 1..keep |-> df.data[r][c]]]]

\* df.iloc[:, -weeks:]
ILocLast(df, weeks) ==
    LET from == SliceFrom(Len(df.columns), weeks)
        keep == Len(df.columns) - from + 1
    IN  [index   |-> df.index,
         columns |-> [c \in 1..keep |-> df.columns[from + c - 1]],
         data    |-> [r \in 1..Len(df.index) |->
                        [c \in 1..keep |-> df.data[r][from + c - 1]]]]

\* lines 179-182: align on the union of the dates, sort, keep the last weeks
AlignAndTrim(series_map, weeks) ==
    LET all == ConcatT(series_map)
    IN  ILocLast(ReindexColumns(all, Sorted(all.columns)), weeks)

\* Timestamp.strftime("%Y-%m-%d") of the week-ending Friday of week wk
Strftime(wk) ==
    <<"2024-01-05", "2024-01-12", "2024-01-19", "2024-01-26",
      "2024-02-02", "2024-02-09", "2024-02-16", "2024-02-23">>[wk]

Labels(df) == [c \in 1..Len(df.columns) |-> Strftime(df.columns[c])]

\* forward fill along a row (fill_method="pad")
FFill(row) ==
    [c \in 1..Len(row) |->
        LET seen == {h \in 1..c : ~IsNaN(row[h])}
        IN  IF seen = {} THEN NaN ELSE row[CHOOSE h \in seen : \A g \in seen : g <= h]]

\* one row of pct_change: data / data.shift(1) - 1
PctRow(row) ==
    [c \in 1..Len(row) |->
        IF c = 1 THEN NaN ELSE FSubInt(FDiv(row[c], row[c - 1]), 1)]

\* all_df.pct_change(axis=1) * 100.0; pad is the library's default
\* fill_method: "pad" before pandas 3, none from pandas 3 on
PctChange(df, pad) ==
    [index   |-> df.index,
     columns |-> df.columns,
     data    |-> [r \in 1..Len(df.index) |->
                    LET filled == IF pad THEN FFill(df.data[r]) ELSE df.data[r]
                        pct    == PctRow(filled)
                    IN  [c \in 1..Len(pct) |-> FMulInt(pct[c], 100)]]]

\* faulty variant: the start values used as they are
KeepZero(x) == x

\* Series.replace(0, np.nan)
ReplaceZero(x) == IF IsNum(x) /\ x.n = 0 THEN NaN ELSE x

\* all_df.iloc[:, 0].replace(0, np.nan)
StartVals(df) == [r \in 1..Len(df.index) |-> ReplaceZero(df.data[r][1])]

\* all_df.divide(start_vals, axis=0) * 100.0
Normalize(df) ==
    LET start_vals == StartVals(df)
    IN  [index   |-> df.index,
         columns |-> df.columns,
         data    |-> [r \in 1..Len(df.index) |->
                        [c \in 1..Len(df.columns) |->
                            FMulInt(FDiv(df.data[r][c], start_vals[r]), 100)]]]

\* --------------------------------------------------------- live quotes ----
\* A quote answer: an exception, or the closes of the last days (history).
RECURSIVE DropNaCells(_)
DropNaCells(s) ==
    IF s = <<>> THEN <<>>
    ELSE IF IsNaN(Head(s)) THEN DropNaCells(Tail(s))
    ELSE <<Head(s)>> \o DropNaCells(Tail(s))

\* faulty variant: the previous close is not tested
LiveQuoteUnguarded(sym, answer) ==
    LET close_vals == IF answer.exc THEN <<>> ELSE DropNaCells(answer.frame)
        n          == Len(close_vals)
        have       == n >= 2
        prev_close == IF have THEN close_vals[n - 1] ELSE NaN
        last_close == IF have THEN close_vals[n] ELSE NaN
        pct        == IF have
                      THEN FMulInt(FDiv(FSub(last_close, prev_close), prev_close), 100)
                      ELSE NaN
    IN  [raised |-> FALSE,
         live   |-> [Symbol |-> sym, LivePct |-> pct, LivePrice |-> last_close],
         intra  |-> [Symbol |-> sym, IntradayPct |-> pct]]

\* one iteration of _compute_live_and_intraday: the live and intraday rows
LiveQuote(sym, answer) ==
    LET close_vals == IF answer.exc THEN <<>> ELSE DropNaCells(answer.frame)
        n          == Len(close_vals)
        have       == n >= 2
        prev_close == IF have THEN close_vals[n - 1] ELSE NaN
        last_close == IF have THEN close_vals[n] ELSE NaN
        pct        == IF have /\ prev_close.n > 0
                      THEN FMulInt(FDiv(FSub(last_close, prev_close), prev_close), 100)
                      ELSE NaN
    IN  [raised |-> FALSE,
         live   |-> [Symbol |-> sym, LivePct |-> pct, LivePrice |-> last_close],
         intra  |-> [Symbol |-> sym, IntradayPct |-> pct]]

\* ------------------------------------------------------ batched fetch ----
\* app.py line 77: dropna().astype(str).str.strip().unique().tolist()
UniqueSymbols(column) == Dedup([j \in 1..Len(column) |-> Strip(column[j])])

Min(a, b) == IF a <= b THEN a ELSE b

\* faulty variant: seq[i : i + size - 1]
RECURSIVE ChunkFromShort(_, _, _)
ChunkFromShort(seq, size, start) ==
    IF start >= Len(seq) THEN <<>>
    ELSE <<SubSeq(seq, start + 1, Min(start + size - 1, Len(seq)))>>
         \o ChunkFromShort(seq, size, start + size)

\* chunk(seq, size): seq[i : i + size] for i in range(0, len(seq), size)
RECURSIVE ChunkFrom(_, _, _)
ChunkFrom(seq, size, start) ==
    IF start >= Len(seq) THEN <<>>
    ELSE <<SubSeq(seq, start + 1, Min(start + size, Len(seq)))>>
         \o ChunkFrom(seq, size, start + size)

Chunk(seq, size) == ChunkFrom(seq, size, 0)

\* out.update(d)
RECURSIVE Update(_, _)
Update(out, dct) ==
    IF dct = <<>> THEN out
    ELSE Update(SetItem(out, Head(dct).key, Head(dct).val), Tail(dct))

\* merge_symbol_dicts(dict_list)
RECURSIVE MergeSymbolDicts(_)
MergeSymbolDicts(dict_list) ==
    IF dict_list = <<>> THEN <<>>
    ELSE Update(MergeSymbolDicts(SubSeq(dict_list, 1, Len(dict_list) - 1)),
                dict_list[Len(dict_list)])

\* The week-ending labels of the lookback window (Calendar.weekEndingDates):
\* the same for every batch.
CalendarLabels == [c \in 1..MaxDate |-> Strftime(c)]

\* fetch_all_prices(batch) against a deterministic source: for each symbol of
\* the batch, in order, its weekly closes (no entry for a symbol without
\* data), its live price and its intraday change
RECURSIVE FetchAllPrices(_, _)
FetchAllPrices(batch, src) ==
    IF batch = <<>>
    THEN [labels |-> CalendarLabels, all_data |-> <<>>, intr_price |-> <<>>,
          intr_change |-> <<>>]
    ELSE LET front == FetchAllPrices(SubSeq(batch, 1, Len(batch) - 1), src)
             sym   == batch[Len(batch)]
             ans   == src[sym]
         IN  [labels      |-> CalendarLabels,
              all_data    |-> IF ans.closes = <<>> THEN front.all_data
                              ELSE SetItem(front.all_data, sym, ans.closes),
              intr_price  |-> SetItem(front.intr_price, sym, ans.price),
              intr_change |-> SetItem(front.intr_change, sym, ans.change)]

\* the symbols of the list that have no entry in the merged data
SkipList(list, all_data) == SelectSeq(list, LAMBDA s : ~HasKey(all_data, s))

\* -------------------------------------------------- visualization.py ----
\* a <= b for two numbers
FLeq(a, b) == a.n * b.d <= b.n * a.d

\* Series.cummax() of a series without NaN
RECURSIVE CumMaxFrom(_, _)
CumMaxFrom(s, top) ==
    IF s = <<>> THEN <<>>
    ELSE LET m == IF FLeq(Head(s), top) THEN top ELSE Head(s)
         IN  <<m>> \o CumMaxFrom(Tail(s), m)

CumMax(s) == IF s = <<>> THEN <<>> ELSE CumMaxFrom(s, Head(s))

\* faulty variant: the largest value of the series
SeriesMax(s) ==
    LET v == DropNaCells(s)
    IN  IF v = <<>> THEN NaN
        ELSE v[CHOOSE j \in 1..Len(v) : \A h \in 1..Len(v) : FLeq(v[h], v[j])]

\* Series.min(): NaN is skipped, NaN when nothing is left
SeriesMin(s) ==
    LET v == DropNaCells(s)
    IN  IF v = <<>> THEN NaN
        ELSE v[CHOOSE j \in 1..Len(v) : \A h \in 1..Len(v) : FLeq(v[j], v[h])]

\* _calculate_max_drawdown, lines 9-17
CalculateMaxDrawdown(prices) ==
    IF prices = <<>> THEN NaN
    ELSE LET s == DropNaCells(prices)
         IN  IF s = <<>> THEN NaN
             ELSE LET cum_max  == CumMax(s)
                      drawdown == [j \in 1..Len(s) |-> FSubInt(FDiv(s[j], cum_max[j]), 1)]
                  IN  FMulInt(SeriesMin(drawdown), 100)

\* the permutations of 1..n
Perms(n) == {p \in [1..n -> 1..n] : \A j, h \in 1..n : j # h => p[j] # p[h]}

\* a may stand before b in sort_values: NaN is placed last
MayPrecede(a, b, ascending) ==
    \/ IsNaN(b)
    \/ ~IsNaN(a) /\ (IF ascending THEN FLeq(a, b) ELSE FLeq(b, a))

\* sort_values on the scores: the orders of 1..Len(scores) that the default
\* sort (quicksort, not stable) can return
SortValues(scores, ascending) ==
    {p \in Perms(Len(scores)) :
        \A j, h \in 1..Len(scores) :
            j < h => MayPrecede(scores[p[j]], scores[p[h]], ascending)}

\* render_drawdown_table lines 142-151: the rows before sorting, <<>> when
\* the guard of lines 142-145 stops it
DrawdownRows(table) ==
    IF table.df.index = <<>> \/ 1 + Len(table.df.columns) <= 2 THEN <<>>
    ELSE [r \in 1..Len(table.Symbol) |->
            [Symbol |-> table.Symbol[r],
             dd     |-> CalculateMaxDrawdown(DropNaCells(table.df.data[r]))]]

\* what the bundle tells about a skipped symbol: line 166 appends the bare
\* symbol and the key "skipped" lists "symbols with no data" (line 208)
SkipReason(entry) == "no_data"

\* a cell that is not a number (text)
Text == [k |-> "text", n |-> 0, d |-> 1]

\* pd.to_numeric(..., errors="coerce") on a cell
ToNumeric(c) == IF c.k = "text" THEN NaN ELSE c

\* _coerce_numeric_df, lines 20-25
CoerceNumericDF(df) ==
    [df EXCEPT !.data = [r \in 1..Len(df.data) |->
                           [c \in 1..Len(df.data[r]) |-> ToNumeric(df.data[r][c])]]]

\* _sort_columns_as_dates_if_possible, lines 28-36 (the columns are dates)
SortColumnsAsDates(df) == ReindexColumns(df, Sorted(df.columns))

\* _last_valid_numeric, lines 39-42
LastValidNumeric(series) ==
    LET vals == DropNaCells([c \in 1..Len(series) |-> ToNumeric(series[c])])
    IN  IF vals = <<>> THEN NaN ELSE vals[Len(vals)]

\* Series.head(n) for n >= 0: the first n positions of an order
Head_(order, n) == SubSeq(order, 1, Min(n, Len(order)))

\* df.loc[keep_idx]: the rows at the kept positions, in that order
LocRows(df, keep) ==
    [index   |-> [j \in 1..Len(keep) |-> df.index[keep[j]]],
     columns |-> df.columns,
     data    |-> [j \in 1..Len(keep) |-> df.data[keep[j]]]]

\* _top_n_by_last_value, lines 45-57, for one of the orders sort_values can
\* return; n = -1 is None
TopNByLastValue(wide, n, order) ==
    IF wide.index = <<>> \/ wide.columns = <<>> \/ n = -1 THEN wide
    ELSE LET df == CoerceNumericDF(SortColumnsAsDates(wide))
         IN  LocRows(df, Head_(order, n))

\* line 55: the score of every row of the sorted, coerced table
Scores(wide) ==
    LET df == CoerceNumericDF(SortColumnsAsDates(wide))
    IN  [r \in 1..Len(df.index) |-> LastValidNumeric(df.data[r])]

\* --------------------------------------------------------------- state ----
VARIABLES
    symbols,      \* the argument: the raw symbol list
    weeks,        \* the argument: the lookback
    pc,           \* where build_price_tables is
    syms,         \* symbols after line 159
    i,            \* position of the fetch loop in syms
    series_map,   \* dict symbol -> weekly series
    skipped,      \* list of symbols without a series
    all_df,       \* the aligned price table
    labels,       \* the column labels
    weekly_pct,   \* the percent-change table
    norm_df,      \* the normalized table
    live_rows,    \* rows of live_pct_df
    intra_rows,   \* rows of intraday_df
    pack,         \* the returned bundle (meaningful when pc = "done")
    err,          \* the exception that left the function, "none" if none
    downloads,    \* history: symbol -> number of daily-close downloads
    failed        \* history: the symbols whose daily / live call failed or raised

\* app.py, the batched fetch
VARIABLES
    column,              \* the sheet's Symbol column
    source,              \* the deterministic price source: symbol -> answer
    max_batch,           \* the sidebar's batch size
    bpc,                 \* where the script is
    b_symbols,           \* line 77
    batches,             \* line 115
    b_done,              \* line 113, 131
    labels_all,          \* lines 108, 124 (<<>> is None)
    all_data_pieces,     \* line 109
    intraday_pieces,     \* line 110
    intraday_change_pieces, \* line 111
    all_data_merged,     \* line 135
    intr_price_merged,   \* line 139
    intr_change_merged   \* line 140

pvars == <<symbols, weeks, pc, syms, i, series_map, skipped, all_df, labels,
           weekly_pct, norm_df, live_rows, intra_rows, pack, err, downloads, failed>>

bvars == <<column, source, max_batch, bpc, b_symbols, batches, b_done, labels_all,
           all_data_pieces, intraday_pieces, intraday_change_pieces,
           all_data_merged, intr_price_merged, intr_change_merged>>

\* visualization.py on one table, the live quote of one symbol, and the
\* session of analysis1.py
VARIABLES
    vpc,            \* where the rendering helpers are
    price_df,       \* the argument of render_drawdown_table
    dd_rows,        \* its rows, sorted (line 153)
    wide_df,        \* the argument of _top_n_by_last_value
    top_n,          \* its argument n (-1 is None)
    top_out,        \* the table it returns
    quote_answer,   \* what the source answered to the history calls, in order
    quote_rows,     \* the two tables _compute_live_and_intraday returned
    price_pack,     \* st.session_state["price_pack"] (NoPack is None)
    built_symbols,  \* st.session_state["built_symbols"]
    built_weeks,    \* st.session_state["built_weeks"] (0 is None)
    notice          \* the message of the last run: st.warning, st.error or none

xvars == <<vpc, price_df, dd_rows, wide_df, top_n, top_out, quote_answer, quote_rows,
           price_pack, built_symbols, built_weeks, notice>>

vars == <<pvars, bvars, xvars>>

NoPack == [labels |-> <<>>, price_df |-> [Symbol |-> <<>>, df |-> EmptyDF],
           weekly_pct |-> EmptyDF, live_pct_df |-> <<>>, intraday_df |-> <<>>,
           norm_df |-> EmptyDF, skipped |-> <<>>]

NoFailures == [daily |-> {}, live |-> {}, raised |-> {}]

\* the symbols a cleaned list can hold
AllSyms == {Strip(r) : r \in RawSymbols}

\* nothing rendered, no quote asked, an empty session
OthersIdle(state) ==
    /\ vpc = state
    /\ price_df = [Symbol |-> <<>>, df |-> EmptyDF]
    /\ dd_rows = <<>>
    /\ wide_df = EmptyDF
    /\ top_n = -1
    /\ top_out = EmptyDF
    /\ quote_answer = <<>>
    /\ quote_rows = [live |-> <<>>, intra |-> <<>>]
    /\ price_pack = NoPack
    /\ built_symbols = <<>>
    /\ built_weeks = 0
    /\ notice = "none"

\* build_price_tables has not been called
PipelineIdle(state) ==
    /\ symbols = <<>>
    /\ weeks = 1
    /\ pc = state
    /\ syms = <<>>
    /\ i = 1
    /\ series_map = <<>>
    /\ skipped = <<>>
    /\ all_df = EmptyDF
    /\ labels = <<>>
    /\ weekly_pct = EmptyDF
    /\ norm_df = EmptyDF
    /\ live_rows = <<>>
    /\ intra_rows = <<>>
    /\ pack = NoPack
    /\ err = "none"
    /\ downloads = [s \in AllSyms |-> 0]
    /\ failed = NoFailures

\* the app.py script has not run
BatchIdle(state) ==
    /\ column = <<>>
    /\ source = <<>>
    /\ max_batch = 1
    /\ bpc = state
    /\ b_symbols = <<>>
    /\ batches = <<>>
    /\ b_done = 0
    /\ labels_all = <<>>
    /\ all_data_pieces = <<>>
    /\ intraday_pieces = <<>>
    /\ intraday_change_pieces = <<>>
    /\ all_data_merged = <<>>
    /\ intr_price_merged = <<>>
    /\ intr_change_merged = <<>>

\* ------------------------------------------------ build_price_tables ----
\* line 159: [str(s).strip() for s in symbols if str(s).strip()]
RECURSIVE CleanSymbols(_)
CleanSymbols(raw) ==
    IF raw = <<>> THEN <<>>
    ELSE (IF Strip(Head(raw)) # <<>> THEN <<Strip(Head(raw))>> ELSE <<>>)
         \o CleanSymbols(Tail(raw))

\* the call: build_price_tables(list, lookback)
Call(inputs, lookbacks) ==
    /\ pc = "idle"
    /\ symbols' \in inputs
    /\ weeks' \in lookbacks
    /\ pc' = "start"
    /\ UNCHANGED <<syms, i, series_map, skipped, all_df, labels, weekly_pct, norm_df,
                   live_rows, intra_rows, pack, err, downloads, failed>>
    /\ UNCHANGED <<bvars, xvars>>

\* lines 159-161
Clean ==
    /\ pc = "start"
    /\ syms' = CleanSymbols(symbols)
    /\ series_map' = <<>>
    /\ skipped' = <<>>
    /\ i' = 1
    /\ pc' = "fetch"
    /\ UNCHANGED <<symbols, weeks, all_df, labels, weekly_pct, norm_df, live_rows,
                   intra_rows, pack, err, downloads, failed>>
    /\ UNCHANGED <<bvars, xvars>>

\* lines 163-170: one iteration of the fetch loop, the source answering with
\* an exception or with one of the frames
FetchOne(frames) ==
    /\ pc = "fetch"
    /\ i <= Len(syms)
    /\ \E answer \in {Answer(TRUE, EmptyFrame)} \cup {Answer(FALSE, f) : f \in frames} :
         LET sym   == syms[i]
             got   == SafeDownload(answer)
             s     == FridayCloses(got.frame, weeks)
         IN  /\ downloads' = [downloads EXCEPT ![sym] = @ + 1]
             /\ failed' = IF answer.exc
                          THEN [failed EXCEPT !.daily = @ \cup {sym},
                                              !.raised = @ \cup {sym}]
                          ELSE IF answer.frame = EmptyFrame
                          THEN [failed EXCEPT !.daily = @ \cup {sym}]
                          ELSE failed
             /\ IF got.raised
                THEN /\ pc' = "failed"
                     /\ err' = "upstream"
                     /\ UNCHANGED <<i, skipped, series_map>>
                ELSE /\ i' = i + 1
                     /\ UNCHANGED <<pc, err>>
                     /\ IF s = NoSeries
                        THEN /\ skipped' = Append(skipped, sym)
                             /\ UNCHANGED series_map
                        ELSE /\ series_map' = SetItem(series_map, sym, s)
                             /\ UNCHANGED skipped
    /\ UNCHANGED <<symbols, weeks, syms, all_df, labels, weekly_pct, norm_df,
                   live_rows, intra_rows, pack>>
    /\ UNCHANGED <<bvars, xvars>>

\* faulty variant: raise as soon as some symbol was skipped
NoDataAnySkipped ==
    /\ pc = "fetch"
    /\ i > Len(syms)
    /\ skipped # <<>>
    /\ pc' = "failed"
    /\ err' = "ValueError"
    /\ UNCHANGED <<symbols, weeks, syms, i, series_map, skipped, all_df, labels,
                   weekly_pct, norm_df, live_rows, intra_rows, pack, downloads, failed>>
    /\ UNCHANGED <<bvars, xvars>>

\* lines 172-176: raise ValueError when no symbol has a series
NoData ==
    /\ pc = "fetch"
    /\ i > Len(syms)
    /\ series_map = <<>>
    /\ pc' = "failed"
    /\ err' = "ValueError"
    /\ UNCHANGED <<symbols, weeks, syms, i, series_map, skipped, all_df, labels,
                   weekly_pct, norm_df, live_rows, intra_rows, pack, downloads, failed>>
    /\ UNCHANGED <<bvars, xvars>>

\* faulty variant: align as soon as one symbol has a series
AlignEarly ==
    /\ pc = "fetch"
    /\ series_map # <<>>
    /\ all_df' = AlignAndTrim(series_map, weeks)
    /\ labels' = Labels(all_df')
    /\ pc' = "derive"
    /\ UNCHANGED <<symbols, weeks, syms, i, series_map, skipped, weekly_pct, norm_df,
                   live_rows, intra_rows, pack, err, downloads, failed>>
    /\ UNCHANGED <<bvars, xvars>>

\* lines 178-189: the aligned table and its labels
Align ==
    /\ pc = "fetch"
    /\ i > Len(syms)
    /\ series_map # <<>>
    /\ all_df' = AlignAndTrim(series_map, weeks)
    /\ labels' = Labels(all_df')
    /\ pc' = "derive"
    /\ UNCHANGED <<symbols, weeks, syms, i, series_map, skipped, weekly_pct, norm_df,
                   live_rows, intra_rows, pack, err, downloads, failed>>
    /\ UNCHANGED <<bvars, xvars>>

\* lines 191-196: the percent-change and normalized tables
\* (all_df.iloc[:, 0] raises IndexError on a table without columns)
Derive ==
    /\ pc = "derive"
    /\ IF all_df.columns = <<>>
       THEN /\ pc' = "failed"
            /\ err' = "IndexError"
            /\ UNCHANGED <<weekly_pct, norm_df, live_rows, intra_rows>>
       ELSE /\ \E pad \in BOOLEAN : weekly_pct' = PctChange(all_df, pad)
            /\ norm_df' = Normalize(all_df)
            /\ live_rows' = <<>>
            /\ intra_rows' = <<>>
            /\ pc' = "live"
            /\ UNCHANGED err
    /\ UNCHANGED <<symbols, weeks, syms, i, series_map, skipped, all_df, labels,
                   pack, downloads, failed>>
    /\ UNCHANGED <<bvars, xvars>>

\* lines 119-141: one iteration of the live loop over the rows of all_df
LiveOne(hists) ==
    /\ pc = "live"
    /\ Len(live_rows) < Len(all_df.index)
    /\ \E answer \in {Answer(TRUE, <<>>)} \cup {Answer(FALSE, h) : h \in hists} :
         LET sym == all_df.index[Len(live_rows) + 1]
             q   == LiveQuote(sym, answer)
         IN  /\ failed' = IF answer.exc THEN [failed EXCEPT !.live = @ \cup {sym}]
                          ELSE failed
             /\ IF q.raised
                THEN /\ pc' = "failed"
                     /\ err' = "upstream"
                     /\ UNCHANGED <<live_rows, intra_rows>>
                ELSE /\ live_rows' = Append(live_rows, q.live)
                     /\ intra_rows' = Append(intra_rows, q.intra)
                     /\ UNCHANGED <<pc, err>>
    /\ UNCHANGED <<symbols, weeks, syms, i, series_map, skipped, all_df, labels,
                   weekly_pct, norm_df, pack, downloads>>
    /\ UNCHANGED <<bvars, xvars>>

\* lines 143-145 and 201-210: the bundle is returned
Return ==
    /\ pc = "live"
    /\ Len(live_rows) = Len(all_df.index)
    /\ pack' = [labels      |-> labels,
                price_df    |-> [Symbol |-> all_df.index, df |-> all_df],
                weekly_pct  |-> weekly_pct,
                live_pct_df |-> live_rows,
                intraday_df |-> intra_rows,
                norm_df     |-> norm_df,
                skipped     |-> skipped]
    /\ pc' = "done"
    /\ UNCHANGED <<symbols, weeks, syms, i, series_map, skipped, all_df, labels,
                   weekly_pct, norm_df, live_rows, intra_rows, err, downloads, failed>>
    /\ UNCHANGED <<bvars, xvars>>

\* closes of a quote history: none, one, or two closes
PlainHists == {<<>>, <<Num(MaxPrice)>>, <<Num(1), Num(MaxPrice)>>, <<Num(0), Num(1)>>}

\* ---- Spec: every input list, every lookback, symbols listed for some weeks
Init == PipelineIdle("idle") /\ BatchIdle("off") /\ OthersIdle("off")

Next ==
    \/ Call(SeqsUpTo(RawSymbols, MaxSyms), 1..MaxWeeks)
    \/ Clean
    \/ FetchOne(PlainFrames)
    \/ NoData
    \/ Align
    \/ Derive
    \/ LiveOne(PlainHists)
    \/ Return

Spec == Init /\ [][Next]_vars

\* ---- SpecTables: lists of distinct symbols, the first symbol of the list
\* with any weekly closes (gaps, zero closes, NaN closes), the others with
\* closes of 1 in any weeks
TableInputs ==
    {q \in SeqsUpTo(RawSymbols, 2) :
        /\ q # <<>>
        /\ CleanSymbols(q) = [j \in 1..Len(q) |-> Strip(q[j])]
        /\ \A j, h \in 1..Len(q) : j # h => Strip(q[j]) # Strip(q[h])}

NextTables ==
    \/ Call(TableInputs, 1..MaxWeeks)
    \/ Clean
    \/ FetchOne(IF i = 1 THEN RichFrames ELSE GapFrames)
    \/ NoData
    \/ Align
    \/ Derive
    \/ LiveOne(PlainHists)
    \/ Return

SpecTables == Init /\ [][NextTables]_vars

\* ---- SpecConfig: lookbacks that are not positive
NextConfig ==
    \/ Call(SeqsUpTo(RawSymbols, 2), (0 - MaxBelow)..0)
    \/ Clean
    \/ FetchOne(PlainFrames)
    \/ NoData
    \/ Align
    \/ Derive
    \/ LiveOne(PlainHists)
    \/ Return

SpecConfig == Init /\ [][NextConfig]_vars

\* ------------------------------------------------- app.py, the script ----
\* the Symbol column of the uploaded sheet
BatchRaw == RawSymbols \cup {<<"C">>}

BatchSyms == {Strip(r) : r \in BatchRaw}

\* what the deterministic source holds for a symbol: nothing, or weekly
\* closes with a live price and an intraday change
SourceAnswers ==
    {[closes |-> <<>>, price |-> NaN, change |-> NaN],
     [closes |-> <<Num(1), Num(MaxPrice)>>, price |-> Num(MaxPrice), change |-> Num(0)],
     [closes |-> <<Num(MaxPrice), Num(1)>>, price |-> Num(1), change |-> NaN]}

\* lines 42-77: the sidebar's batch size, the upload, the symbols
Ingest ==
    /\ bpc = "idle"
    /\ column' \in SeqsUpTo(BatchRaw, MaxSyms)
    /\ source' \in [BatchSyms -> SourceAnswers]
    /\ max_batch' \in 1..MaxBatch
    /\ b_symbols' = UniqueSymbols(column')
    /\ bpc' = "button"
    /\ UNCHANGED <<batches, b_done, labels_all, all_data_pieces, intraday_pieces,
                   intraday_change_pieces, all_data_merged, intr_price_merged,
                   intr_change_merged>>
    /\ UNCHANGED <<pvars, xvars>>

\* lines 98-100: nothing to fetch
NoSymbols ==
    /\ bpc = "button"
    /\ Len(b_symbols) = 0
    /\ bpc' = "stopped"
    /\ UNCHANGED <<column, source, max_batch, b_symbols, batches, b_done, labels_all,
                   all_data_pieces, intraday_pieces, intraday_change_pieces,
                   all_data_merged, intr_price_merged, intr_change_merged>>
    /\ UNCHANGED <<pvars, xvars>>

\* lines 103-115
StartFetch ==
    /\ bpc = "button"
    /\ Len(b_symbols) # 0
    /\ labels_all' = <<>>
    /\ all_data_pieces' = <<>>
    /\ intraday_pieces' = <<>>
    /\ intraday_change_pieces' = <<>>
    /\ b_done' = 0
    /\ batches' = Chunk(b_symbols, max_batch)
    /\ bpc' = "fetch"
    /\ UNCHANGED <<column, source, max_batch, b_symbols, all_data_merged,
                   intr_price_merged, intr_change_merged>>
    /\ UNCHANGED <<pvars, xvars>>

\* lines 118-132: one batch
FetchBatch ==
    /\ bpc = "fetch"
    /\ Len(all_data_pieces) < Len(batches)
    /\ LET batch == batches[Len(all_data_pieces) + 1]
           got   == FetchAllPrices(batch, source)
       IN  /\ labels_all' = IF labels_all = <<>> THEN got.labels ELSE labels_all
           /\ all_data_pieces' = Append(all_data_pieces, got.all_data)
           /\ intraday_pieces' = Append(intraday_pieces, got.intr_price)
           /\ intraday_change_pieces' = Append(intraday_change_pieces, got.intr_change)
           /\ b_done' = b_done + Len(batch)
    /\ UNCHANGED <<column, source, max_batch, bpc, b_symbols, batches,
                   all_data_merged, intr_price_merged, intr_change_merged>>
    /\ UNCHANGED <<pvars, xvars>>

\* lines 134-140: merge dicts across batches
Merge ==
    /\ bpc = "fetch"
    /\ Len(all_data_pieces) = Len(batches)
    /\ all_data_merged' = MergeSymbolDicts(all_data_pieces)
    /\ intr_price_merged' = MergeSymbolDicts(intraday_pieces)
    /\ intr_change_merged' = MergeSymbolDicts(intraday_change_pieces)
    /\ bpc' = "merged"
    /\ UNCHANGED <<column, source, max_batch, b_symbols, batches, b_done, labels_all,
                   all_data_pieces, intraday_pieces, intraday_change_pieces>>
    /\ UNCHANGED <<pvars, xvars>>

InitBatch == PipelineIdle("off") /\ BatchIdle("idle") /\ OthersIdle("off")

NextBatch ==
    \/ Ingest
    \/ NoSymbols
    \/ StartFetch
    \/ FetchBatch
    \/ Merge

SpecBatch == InitBatch /\ [][NextBatch]_vars

\* ------------------------------------------- visualization.py, tables ----
\* a cell of a price table: no value, or a close
Cells == {NaN} \cup {Num(p) : p \in Prices}

\* tables of one or two symbols over up to MaxCols weeks: the first row has
\* any cells, the second has no values or a close of 1 everywhere
DrawdownTables ==
    UNION {
      {[Symbol |-> idx,
        df |-> [index |-> idx, columns |-> [c \in 1..n |-> c],
                data |-> IF Len(idx) = 1 THEN <<first>>
                         ELSE <<first, [c \in 1..n |-> other]>>]] :
          first \in [1..n -> Cells], other \in {NaN, Num(1)},
          idx \in {<<SymA>>, <<SymA, SymB>>}} :
      n \in 0..MaxCols}

\* render_drawdown_table(table), lines 137-155
RenderDrawdownTable(tables) ==
    /\ vpc = "idle"
    /\ price_df' \in tables
    /\ LET rows == DrawdownRows(price_df')
       IN  \E p \in SortValues([r \in 1..Len(rows) |-> rows[r].dd], TRUE) :
               dd_rows' = [j \in 1..Len(rows) |-> rows[p[j]]]
    /\ vpc' = "drawdown"
    /\ UNCHANGED <<wide_df, top_n, top_out, quote_answer, quote_rows, price_pack,
                   built_symbols, built_weeks, notice>>
    /\ UNCHANGED <<pvars, bvars>>

InitDrawdown == PipelineIdle("off") /\ BatchIdle("off") /\ OthersIdle("idle")

NextDrawdown == RenderDrawdownTable(DrawdownTables)

SpecDrawdown == InitDrawdown /\ [][NextDrawdown]_vars

\* ------------------------------- _compute_live_and_intraday, on its own ----
\* the answers to a history call: an exception, or up to MaxDays closes
QuoteAnswers(hists) == {Answer(TRUE, <<>>)} \cup {Answer(FALSE, h) : h \in hists}

\* _compute_live_and_intraday([A]) or ([A, B]), lines 108-145
ComputeLiveAndIntraday(firsts, others) ==
    /\ vpc = "idle"
    /\ quote_answer' \in {<<a>> : a \in QuoteAnswers(firsts)}
                         \cup (QuoteAnswers(firsts) \X QuoteAnswers(others))
    /\ LET list == SubSeq(<<SymA, SymB>>, 1, Len(quote_answer'))
       IN  quote_rows' =
             [live  |-> [j \in 1..Len(list) |-> LiveQuote(list[j], quote_answer'[j]).live],
              intra |-> [j \in 1..Len(list) |-> LiveQuote(list[j], quote_answer'[j]).intra]]
    /\ vpc' = "quoted"
    /\ UNCHANGED <<price_df, dd_rows, wide_df, top_n, top_out, price_pack,
                   built_symbols, built_weeks, notice>>
    /\ UNCHANGED <<pvars, bvars>>

InitQuotes == PipelineIdle("off") /\ BatchIdle("off") /\ OthersIdle("idle")

NextQuotes == ComputeLiveAndIntraday(SeqsUpTo(Cells, MaxDays), PlainHists)

SpecQuotes == InitQuotes /\ [][NextQuotes]_vars

\* --------------------------------------------- _top_n_by_last_value ----
\* tables of one or two symbols in any order over up to 2 weeks in any
\* column order, cells with text included
TopTables ==
    UNION {
      {[index |-> idx, columns |-> cols, data |-> d] :
          d \in [1..Len(idx) -> [1..Len(cols) -> Cells \cup {Text}]]} :
      idx \in {<<>>, <<SymA>>, <<SymB>>, <<SymA, SymB>>, <<SymB, SymA>>},
      cols \in {<<>>, <<1>>, <<1, 2>>, <<2, 1>>}}

\* _top_n_by_last_value(table, n), lines 45-57
TopN(tables, ns) ==
    /\ vpc = "idle"
    /\ wide_df' \in tables
    /\ top_n' \in ns
    /\ \E order \in SortValues(Scores(wide_df'), FALSE) :
          top_out' = TopNByLastValue(wide_df', top_n', order)
    /\ vpc' = "topn"
    /\ UNCHANGED <<price_df, dd_rows, quote_answer, quote_rows, price_pack,
                   built_symbols, built_weeks, notice>>
    /\ UNCHANGED <<pvars, bvars>>

InitTopN == PipelineIdle("off") /\ BatchIdle("off") /\ OthersIdle("idle")

NextTopN == TopN(TopTables, -1..MaxSyms)

SpecTopN == InitTopN /\ [][NextTopN]_vars

\* ------------------------------------------- analysis1.py, the session ----
\* lines 122-125: Build is pressed and no symbols are found
ClickNoSymbols ==
    /\ pc = "idle"
    /\ notice' = "warning"
    /\ UNCHANGED <<vpc, price_df, dd_rows, wide_df, top_n, top_out, quote_answer,
                   quote_rows, price_pack, built_symbols, built_weeks>>
    /\ UNCHANGED <<pvars, bvars>>

\* lines 122-129: Build is pressed, symbols are found and build_price_tables
\* is called with them and the selected lookback
ClickBuild(inputs, lookbacks) ==
    /\ pc = "idle"
    /\ symbols' \in inputs \ {<<>>}
    /\ weeks' \in lookbacks
    /\ pc' = "start"
    /\ notice' = "none"
    /\ UNCHANGED <<syms, i, series_map, skipped, all_df, labels, weekly_pct, norm_df,
                   live_rows, intra_rows, pack, err, downloads, failed>>
    /\ UNCHANGED <<vpc, price_df, dd_rows, wide_df, top_n, top_out, quote_answer,
                   quote_rows, price_pack, built_symbols, built_weeks>>
    /\ UNCHANGED bvars

\* build_price_tables is left: its locals are gone
Left ==
    /\ symbols' = <<>>
    /\ weeks' = 1
    /\ pc' = "idle"
    /\ syms' = <<>>
    /\ i' = 1
    /\ series_map' = <<>>
    /\ skipped' = <<>>
    /\ all_df' = EmptyDF
    /\ labels' = <<>>
    /\ weekly_pct' = EmptyDF
    /\ norm_df' = EmptyDF
    /\ live_rows' = <<>>
    /\ intra_rows' = <<>>
    /\ pack' = NoPack
    /\ err' = "none"
    /\ downloads' = [s \in AllSyms |-> 0]
    /\ failed' = NoFailures

\* faulty variant: only the pack is stored
StorePackOnly ==
    /\ pc = "done"
    /\ price_pack' = pack
    /\ Left
    /\ UNCHANGED <<vpc, price_df, dd_rows, wide_df, top_n, top_out, quote_answer,
                   quote_rows, built_symbols, built_weeks, notice>>
    /\ UNCHANGED bvars

\* lines 129-132: the build returned, the three session keys are stored
StoreBuild ==
    /\ pc = "done"
    /\ price_pack' = pack
    /\ built_symbols' = symbols
    /\ built_weeks' = weeks
    /\ Left
    /\ UNCHANGED <<vpc, price_df, dd_rows, wide_df, top_n, top_out, quote_answer,
                   quote_rows, notice>>
    /\ UNCHANGED bvars

\* lines 133-134: the build raised
BuildFailed ==
    /\ pc = "failed"
    /\ notice' = "error"
    /\ Left
    /\ UNCHANGED <<vpc, price_df, dd_rows, wide_df, top_n, top_out, quote_answer,
                   quote_rows, price_pack, built_symbols, built_weeks>>
    /\ UNCHANGED bvars

\* ---- SpecSession: any sequence of Build presses with lists of one symbol
NextSession ==
    \/ ClickNoSymbols
    \/ ClickBuild(SeqsUpTo(RawSymbols, 1), 1..MaxWeeks)
    \/ Clean
    \/ FetchOne(PlainFrames)
    \/ NoData
    \/ Align
    \/ Derive
    \/ LiveOne(PlainHists)
    \/ Return
    \/ StoreBuild
    \/ BuildFailed

SpecSession == Init /\ [][NextSession]_vars

\* ============================================================== claims ====
Built == pc \in {"derive", "live", "done"}

Derived == pc \in {"live", "done"}

Present(row) == {c \in 1..Len(row) : ~IsNaN(row[c])}

FirstPresent(row) == CHOOSE c \in Present(row) : \A h \in Present(row) : c <= h

NoDuplicates(s) == \A j, h \in 1..Len(s) : j # h => s[j] # s[h]

\* the float x is the rational num / den
RatioEq(x, num, den) == IsNum(x) /\ x.n * den = num * x.d

RECURSIVE SumOver(_, _)
SumOver(f, S) ==
    IF S = {} THEN 0
    ELSE LET x == CHOOSE y \in S : TRUE IN f[x] + SumOver(f, S \ {x})

\* the bundle has every table, over the rows of the symbols with a series
CompleteBundle ==
    LET rows == Keys(series_map)
    IN  /\ pack.labels # <<>>
        /\ Len(pack.labels) = Len(pack.price_df.df.columns)
        /\ pack.price_df.Symbol = rows
        /\ pack.price_df.df.index = rows
        /\ pack.weekly_pct.index = rows
        /\ pack.norm_df.index = rows
        /\ [j \in 1..Len(pack.live_pct_df) |-> pack.live_pct_df[j].Symbol] = rows
        /\ [j \in 1..Len(pack.intraday_df) |-> pack.intraday_df[j].Symbol] = rows
        /\ pack.skipped = skipped

\* C1: build_price_tables raises (and returns no bundle) only when no symbol
\* has a weekly series, it returns only when some symbol has one, the bundle
\* it returns is complete, and every symbol without a series is in skipped.
C1_FailsIffNoSeries ==
    /\ pc = "failed" =>
         /\ err = "ValueError"
         /\ series_map = <<>>
         /\ i > Len(syms)
         /\ pack = NoPack
    /\ Built => series_map # <<>>
    /\ pc = "done" =>
         /\ CompleteBundle
         /\ \A j \in 1..Len(syms) :
              ~HasKey(series_map, syms[j]) => syms[j] \in Range(pack.skipped)

\* a partial success: a bundle with rows and a skipped symbol
C1_Witness ==
    /\ pc = "done"
    /\ pack.skipped # <<>>
    /\ pack.price_df.Symbol # <<>>

\* C2: an upstream failure is never propagated and never stops the loops: a
\* symbol whose download failed is in skipped, a row whose quote failed has
\* absent values, and every symbol and every row is still processed.
C2_FailuresAbsorbed ==
    /\ err # "upstream"
    /\ \A s \in failed.daily : s \in Range(skipped)
    /\ pc = "fetch" => SumOver(downloads, AllSyms) = i - 1
    /\ (Built \/ pc = "failed") => SumOver(downloads, AllSyms) = Len(syms)
    /\ \A j \in 1..Len(live_rows) :
         live_rows[j].Symbol \in failed.live =>
           /\ IsNaN(live_rows[j].LivePct)
           /\ IsNaN(live_rows[j].LivePrice)
           /\ IsNaN(intra_rows[j].IntradayPct)
    /\ failed.live \subseteq {live_rows[j].Symbol : j \in 1..Len(live_rows)}
    /\ pc = "done" => Len(pack.live_pct_df) = Len(pack.price_df.Symbol)

\* a build that returned although a download and a quote had failed
C2_Witness ==
    /\ pc = "done"
    /\ failed.daily # {}
    /\ failed.live # {}
    /\ Len(pack.price_df.Symbol) = 2

\* C3: every row of the price table has at least 2 non-missing values within
\* the trimmed window (a symbol with fewer is skipped, not a row).
C3_RowsHaveTwoValues ==
    Built => \A r \in 1..Len(all_df.index) : Cardinality(Present(all_df.data[r])) >= 2

UnionDates == UNION {Range(SeriesDates(series_map[j].val)) : j \in 1..Len(series_map)}

\* C4: the columns are the same for every row, strictly ascending, exactly
\* the last min(weeks, |union|) dates of the union of the kept series' dates;
\* labels, weekly_pct and norm_df have that column sequence.
C4_Columns ==
    Built =>
      LET cols == all_df.columns
      IN  /\ \A r \in 1..Len(all_df.index) : Len(all_df.data[r]) = Len(cols)
          /\ \A c \in 1..(Len(cols) - 1) : cols[c] < cols[c + 1]
          /\ Len(cols) = Min(weeks, Cardinality(UnionDates))
          /\ Range(cols) \subseteq UnionDates
          /\ \A u \in UnionDates \ Range(cols) : \A c \in 1..Len(cols) : u < cols[c]
          /\ Len(labels) = Len(cols)
          /\ \A c \in 1..Len(cols) : labels[c] = Strftime(cols[c])
          /\ NoDuplicates(labels)
          /\ Derived =>
               /\ weekly_pct.columns = cols
               /\ norm_df.columns = cols
               /\ \A r \in 1..Len(all_df.index) :
                    /\ Len(weekly_pct.data[r]) = Len(cols)
                    /\ Len(norm_df.data[r]) = Len(cols)

\* two rows with different dates whose union was trimmed
C4_Witness ==
    /\ pc = "done"
    /\ Len(all_df.index) = 2
    /\ Len(all_df.columns) < Cardinality(UnionDates)
    /\ SeriesDates(series_map[1].val) # SeriesDates(series_map[2].val)

\* the symbols of seq that are rows, in the order of their first occurrence
FirstOccurrenceOrder(seq, rows) == SelectSeq(Dedup(seq), LAMBDA s : s \in Range(rows))

\* C5: the rows of the three tables are in the order of first occurrence of
\* their symbols in the input list.
C5_RowOrder ==
    pc = "done" =>
      /\ pack.price_df.Symbol = FirstOccurrenceOrder(syms, pack.price_df.Symbol)
      /\ pack.weekly_pct.index = pack.price_df.Symbol
      /\ pack.norm_df.index = pack.price_df.Symbol

\* C7: each distinct symbol is downloaded at most once, is at most one row
\* and is at most once in skipped.
C7_OnceEach ==
    /\ \A s \in AllSyms : downloads[s] <= 1
    /\ NoDuplicates(skipped)
    /\ NoDuplicates(all_df.index)

\* C8: each normalized cell is price / price at the row's first non-missing
\* column * 100, so the cell at that column is 100.
C8_NormalizedFromFirstPresent ==
    Derived =>
      \A r \in 1..Len(all_df.index) :
        LET row == all_df.data[r]
        IN  (Present(row) # {} /\ row[FirstPresent(row)].n # 0) =>
              /\ norm_df.data[r][FirstPresent(row)] = Num(100)
              /\ \A c \in Present(row) :
                   RatioEq(norm_df.data[r][c], 100 * row[c].n, row[FirstPresent(row)].n)

\* the row's base price is zero
ZeroBase(row) == Present(row) # {} /\ row[FirstPresent(row)] = Num(0)

\* C9: a row whose base price is zero has a normalized row of absent cells
\* only (no inf), and the build does not fail: the bundle has that row.
C9_ZeroBaseAbsent ==
    /\ Derived =>
         \A r \in 1..Len(all_df.index) :
           ZeroBase(all_df.data[r]) =>
             /\ \A c \in 1..Len(all_df.columns) : IsNaN(norm_df.data[r][c])
             /\ pc = "done" =>
                  /\ pack.price_df.Symbol[r] = all_df.index[r]
                  /\ pack.norm_df.index[r] = all_df.index[r]
                  /\ \A c \in 1..Len(all_df.columns) : IsNaN(pack.norm_df.data[r][c])
    /\ pc = "failed" => all_df = EmptyDF

\* a returned bundle with a row whose first price in the window is zero
\* and whose later price is not
C9_Witness ==
    /\ pc = "done"
    /\ \E r \in 1..Len(all_df.index) :
         /\ all_df.data[r][1] = Num(0)
         /\ \E c \in Present(all_df.data[r]) : all_df.data[r][c].n > 0

\* C10: a percent-change cell is (price - previous) / previous * 100 over the
\* immediately preceding column, and absent in the first column and whenever
\* the price or the previous price is missing or the previous price is zero.
C10_PercentChange ==
    Derived =>
      \A r \in 1..Len(all_df.index) : \A c \in 1..Len(all_df.columns) :
        LET row == all_df.data[r]
            x   == weekly_pct.data[r][c]
        IN  IF c = 1 THEN IsNaN(x)
            ELSE IF IsNaN(row[c]) \/ IsNaN(row[c - 1]) \/ row[c - 1].n = 0 THEN IsNaN(x)
            ELSE RatioEq(x, 100 * (row[c].n - row[c - 1].n), row[c - 1].n)

\* C6: the batches are consecutive non-empty pieces of at most max_batch
\* symbols whose concatenation is the symbol list, and the merged data, live
\* values, labels, row order and skip list are those of a single batch.
C6_BatchSizeIrrelevant ==
    /\ bpc \in {"fetch", "merged"} =>
         /\ Flatten(batches) = b_symbols
         /\ \A b \in 1..Len(batches) :
              Len(batches[b]) >= 1 /\ Len(batches[b]) <= max_batch
    /\ bpc = "merged" =>
         LET single == FetchAllPrices(b_symbols, source)
         IN  /\ all_data_merged = single.all_data
             /\ intr_price_merged = single.intr_price
             /\ intr_change_merged = single.intr_change
             /\ labels_all = single.labels
             /\ Keys(intr_price_merged) = b_symbols
             /\ SkipList(b_symbols, all_data_merged) = SkipList(b_symbols, single.all_data)
             /\ b_done = Len(b_symbols)

\* several batches, the last one shorter, a symbol with and one without data
C6_Witness ==
    /\ bpc = "merged"
    /\ Len(batches) >= 2
    /\ Len(batches[Len(batches)]) < max_batch
    /\ all_data_merged # <<>>
    /\ SkipList(b_symbols, all_data_merged) # <<>>

\* the values of a row that are present, in column order
Values(row) == [j \in 1..Cardinality(Present(row)) |->
                  row[CHOOSE c \in Present(row) :
                        Cardinality({h \in Present(row) : h <= c}) = j]]

\* the row of closes of a symbol in the table that was rendered
ClosesOf(sym) == price_df.df.data[IndexOf(price_df.Symbol, sym)]

Positive(v) == \A j \in 1..Len(v) : IsNum(v[j]) /\ v[j].n > 0

NonDecreasing(v) == \A j \in 1..(Len(v) - 1) : FLeq(v[j], v[j + 1])

StrictlyDecreasing(v) == \A j \in 1..(Len(v) - 1) : ~FLeq(v[j], v[j + 1])

\* C11: for a row of positive prices with at least 2 values the maximum
\* drawdown is at most 0, it is 0 when the prices never decrease, and when
\* they strictly decrease it is (last / first - 1) * 100.
C11_DrawdownBounds ==
    \A r \in 1..Len(dd_rows) :
        LET v  == Values(ClosesOf(dd_rows[r].Symbol))
            dd == dd_rows[r].dd
        IN  (Len(v) >= 2 /\ Positive(v)) =>
                /\ IsNum(dd) /\ dd.n <= 0
                /\ NonDecreasing(v) => dd.n = 0
                /\ StrictlyDecreasing(v) =>
                       RatioEq(dd, 100 * (v[Len(v)].n * v[1].d - v[1].n * v[Len(v)].d),
                               v[1].n * v[Len(v)].d)

C11_Witness ==
    /\ vpc = "drawdown"
    /\ \E r \in 1..Len(dd_rows) :
          LET v == Values(ClosesOf(dd_rows[r].Symbol))
          IN  Len(v) >= 2 /\ Positive(v) /\ StrictlyDecreasing(v) /\ dd_rows[r].dd.n < 0
    /\ \E r \in 1..Len(dd_rows) :
          LET v == Values(ClosesOf(dd_rows[r].Symbol))
          IN  Len(v) >= 2 /\ Positive(v) /\ NonDecreasing(v)

\* C12: the maximum drawdown of a row with fewer than 2 present values is
\* absent, not 0.
C12_FewValuesAbsent ==
    \A r \in 1..Len(dd_rows) :
        Cardinality(Present(ClosesOf(dd_rows[r].Symbol))) < 2 => IsNaN(dd_rows[r].dd)

\* C13: a daily-close fetch that fails with a source error is attempted again
\* at most once, so a symbol has at most 2 attempts per build, and a symbol
\* whose fetch raised is skipped with the reason "source_unavailable", not
\* with the reason of a symbol without data.
C13_RetryAndReason ==
    /\ \A s \in AllSyms : downloads[s] <= 2
    /\ \A j \in 1..Len(skipped) :
          (skipped[j] \in failed.raised /\ downloads[skipped[j]] = 1) =>
              SkipReason(skipped[j]) = "source_unavailable"

\* C14: with a lookback of 0 or less the build fails with a configuration
\* error before any fetch is issued.
C14_InvalidLookbackFailsFirst ==
    (pc # "idle" /\ weeks <= 0) =>
        /\ \A s \in AllSyms : downloads[s] = 0
        /\ pc # "done"
        /\ pc = "failed" => err = "ConfigurationError"

\* C15: the intraday % change of a symbol is (price - previous close) /
\* previous close * 100 when the quote has two closes and the previous close
\* is positive, it is absent otherwise (previous close not positive, fewer
\* than 2 closes, failed fetch), and the live % change of the symbol always
\* equals its intraday % change.
C15_IntradayChange ==
    \A j \in 1..Len(quote_rows.intra) :
        LET a        == quote_answer[j]
            closes   == IF a.exc THEN <<>> ELSE Values(a.frame)
            n        == Len(closes)
            previous == closes[n - 1]
            price    == closes[n]
            intraday == quote_rows.intra[j].IntradayPct
        IN  /\ IF n >= 2 /\ previous.n > 0
               THEN RatioEq(intraday, 100 * (price.n * previous.d - previous.n * price.d),
                            price.d * previous.n)
               ELSE IsNaN(intraday)
            /\ quote_rows.live[j].LivePct = intraday
            /\ quote_rows.live[j].Symbol = quote_rows.intra[j].Symbol

C15_Witness ==
    /\ vpc = "quoted"
    /\ Len(quote_rows.intra) = 2
    /\ IsNum(quote_rows.intra[2].IntradayPct) /\ quote_rows.intra[2].IntradayPct.n > 0
    /\ ~quote_answer[1].exc
    /\ LET closes == Values(quote_answer[1].frame)
       IN  /\ Len(closes) >= 2 /\ Len(closes) < Len(quote_answer[1].frame)
           /\ closes[Len(closes) - 1].n = 0
           /\ closes[Len(closes)].n > 0
           /\ IsNaN(quote_rows.intra[1].IntradayPct)

\* the rank of a character in the lexical order of symbols
CharRank(c) == IF c = " " THEN 0 ELSE IF c = "A" THEN 1 ELSE IF c = "B" THEN 2 ELSE 3

\* symbol a stands before symbol b in lexical order
RECURSIVE LexLess(_, _)
LexLess(a, b) ==
    IF b = <<>> THEN FALSE
    ELSE IF a = <<>> THEN TRUE
    ELSE IF CharRank(Head(a)) # CharRank(Head(b)) THEN CharRank(Head(a)) < CharRank(Head(b))
    ELSE LexLess(Tail(a), Tail(b))

\* the ranking value of a symbol of the table given to the Top-N filter
RankOf(sym) == Scores(wide_df)[IndexOf(wide_df.index, sym)]

\* C16: the Top-N filter returns exactly min(N, rows) symbols, ordered by
\* ranking value descending, no excluded row has a strictly higher value
\* than a kept row, rows of equal value stand in the lexical order of their
\* symbols, and with N unset the input is returned as is.
C16_TopN ==
    vpc = "topn" =>
        IF top_n = -1 THEN top_out = wide_df
        ELSE (wide_df.index # <<>> /\ wide_df.columns # <<>>) =>
            LET kept == top_out.index
            IN  /\ Len(kept) = Min(top_n, Len(wide_df.index))
                /\ NoDuplicates(kept)
                /\ Range(kept) \subseteq Range(wide_df.index)
                /\ \A j, h \in 1..Len(kept) :
                      j < h => MayPrecede(RankOf(kept[j]), RankOf(kept[h]), FALSE)
                /\ \A s \in Range(wide_df.index) \ Range(kept) : \A j \in 1..Len(kept) :
                      MayPrecede(RankOf(kept[j]), RankOf(s), FALSE)
                /\ \A j, h \in 1..Len(kept) :
                      (j < h /\ RankOf(kept[j]) = RankOf(kept[h])) => LexLess(kept[j], kept[h])

\* the steps build_price_tables can take from one position to the next
PhaseOrder ==
    {<<"idle", "start">>, <<"start", "fetch">>, <<"fetch", "derive">>,
     <<"derive", "live">>, <<"live", "done">>,
     <<"fetch", "failed">>, <<"derive", "failed">>, <<"live", "failed">>}

C18_ForwardFilled ==
    \A j \in 1..Len(series_map) :
        LET s == series_map[j].val
        IN  \A h \in 1..(Len(s) - 1) : s[h + 1].date = s[h].date + 1

\* C19: after build_price_tables returns, the row symbols and the skipped
\* symbols are disjoint and together are exactly the non-blank trimmed input
\* symbols, also when a symbol is listed more than once and its occurrences
\* are answered differently.
C19_RowsAndSkippedPartition ==
    pc = "done" =>
        LET rows == Range(pack.price_df.Symbol)
            skip == Range(pack.skipped)
        IN  /\ rows \cap skip = {}
            /\ rows \cup skip = {Strip(symbols[j]) : j \in 1..Len(symbols)} \ {<<>>}

\* the three stored keys of the session
Session == <<price_pack, built_symbols, built_weeks>>

\* the stored symbols and weeks are those the stored pack was built from
Describes ==
    IF price_pack = NoPack THEN built_symbols = <<>> /\ built_weeks = 0
    ELSE /\ built_weeks >= 1
         /\ Len(price_pack.labels) <= built_weeks
         /\ Len(price_pack.labels) >= 1
         /\ Range(price_pack.price_df.Symbol) \cup Range(price_pack.skipped)
               = {Strip(built_symbols[j]) : j \in 1..Len(built_symbols)} \ {<<>>}

\* C20: over any sequence of Build presses, a press that finds no symbols and
\* a build that fails leave price_pack, built_symbols and built_weeks as they
\* were, and a successful build replaces all three together, so that the
\* stored symbols and weeks describe the stored pack.
C20_SessionKeptOrReplaced ==
    [][/\ Session' # Session => pc = "done"
       /\ (pc = "done" /\ pc' = "idle") =>
             (price_pack' = pack /\ built_symbols' = symbols /\ built_weeks' = weeks)
       /\ Describes']_vars

C20_Witness ==
    /\ pc = "idle"
    /\ notice = "error"
    /\ price_pack # NoPack
    /\ built_weeks = MaxWeeks
    /\ price_pack.skipped = <<>>

====
